---------------------------- MODULE Spec2Model ----------------------------
(***************************************************************************)
(* A model of src/index.py: the line-oriented UML text parser (UMLParser), *)
(* the effort estimator (UMLEffortEstimator) and the pipeline              *)
(* analyze_uml_document that joins them.                                   *)
(*                                                                         *)
(* Python strings are sequences of one-character strings, so that strip,   *)
(* split, startswith, the in operator, index, slicing and re.split are     *)
(* computed as Python computes them.  Python floats are exact decimals in  *)
(* fixed point: a complexity multiplier is held in units of 1/10000, an    *)
(* element effort in units of 1/10000 hour, a reported figure in units of  *)
(* 1/100 hour.  None-able list fields are records [is_none, items].        *)
(***************************************************************************)
EXTENDS Integers, Sequences, FiniteSets, TLC

VARIABLES
    entry,          \* the function the caller invoked
    content,        \* parse_uml's text argument
    diagram_type,   \* parse_uml's dialect tag
    pc,             \* where the call stands
    elements,       \* the element sequence parsed or handed to the estimator
    scanned,        \* lines a dialect parser has taken from the text
    error,          \* the exception raised, if any
    estimation,     \* estimate_effort's result
    report          \* analyze_uml_document's result

vars == <<entry, content, diagram_type, pc, elements, scanned, error,
          estimation, report>>

-----------------------------------------------------------------------------
(* Bounds of the model.                                                    *)

\* Most lines in one generated input text.
MaxLines == 2
\* Most methods of a class element handed straight to the estimator.
MaxMethods == 11
\* Most relationships of such an element.
MaxRelationships == 6
\* Most inheritance relationships among them.
MaxInheritance == 1

-----------------------------------------------------------------------------
(* Python's str operations.                                                *)

Min(S) == CHOOSE x \in S : \A y \in S : x <= y

\* The whitespace characters of the model's alphabet.
Whitespace == {" ", "\t", "\n"}

RECURSIVE LStrip(_)
LStrip(s) ==
    IF s # <<>> /\ Head(s) \in Whitespace THEN LStrip(Tail(s)) ELSE s

RECURSIVE RStrip(_)
RStrip(s) ==
    IF s # <<>> /\ s[Len(s)] \in Whitespace
    THEN RStrip(SubSeq(s, 1, Len(s) - 1))
    ELSE s

\* str.strip()
Strip(s) == RStrip(LStrip(s))

\* str.startswith(p)
StartsWith(s, p) == Len(p) <= Len(s) /\ SubSeq(s, 1, Len(p)) = p

\* The 1-based places where p occurs in s.
Occurrences(s, p) ==
    {i \in 1..(Len(s) - Len(p) + 1) : SubSeq(s, i, i + Len(p) - 1) = p}

\* p in s
Contains(s, p) == Occurrences(s, p) # {}

\* str.find(p), 1-based; 0 when p does not occur.
Find(s, p) == IF Contains(s, p) THEN Min(Occurrences(s, p)) ELSE 0

\* str.split(sep): the parts between the non-overlapping occurrences of sep,
\* found left to right.
RECURSIVE SplitOn(_, _)
SplitOn(s, sep) ==
    LET i == Find(s, sep)
    IN  IF i = 0
        THEN <<s>>
        ELSE <<SubSeq(s, 1, i - 1)>>
                 \o SplitOn(SubSeq(s, i + Len(sep), Len(s)), sep)

\* str.split(): the maximal runs of non-whitespace characters.
RECURSIVE SplitWs(_)
SplitWs(s) ==
    LET t == LStrip(s)
        gaps == {i \in 1..Len(t) : t[i] \in Whitespace}
        n == IF gaps = {} THEN Len(t) ELSE Min(gaps) - 1
    IN  IF t = <<>>
        THEN <<>>
        ELSE <<SubSeq(t, 1, n)>> \o SplitWs(SubSeq(t, n + 1, Len(t)))

\* re.split(r'--|->|\*|o', s): at each place the alternatives are tried in
\* the order written; `cur` is the part being read, `acc` the parts read.
RECURSIVE ReSplitFrom(_, _, _)
ReSplitFrom(s, cur, acc) ==
    IF s = <<>> THEN Append(acc, cur)
    ELSE IF StartsWith(s, <<"-", "-">>) \/ StartsWith(s, <<"-", ">">>)
    THEN ReSplitFrom(SubSeq(s, 3, Len(s)), <<>>, Append(acc, cur))
    ELSE IF Head(s) \in {"*", "o"}
    THEN ReSplitFrom(Tail(s), <<>>, Append(acc, cur))
    ELSE ReSplitFrom(Tail(s), Append(cur, Head(s)), acc)

ReSplit(s) == ReSplitFrom(s, <<>>, <<>>)

\* s[a:b] with Python's 0-based, end-exclusive, clamped slicing (a, b >= 0).
Slice(s, a, b) ==
    LET hi == IF b > Len(s) THEN Len(s) ELSE b
    IN  IF a >= hi THEN <<>> ELSE SubSeq(s, a + 1, hi)

\* sep.join(parts)
RECURSIVE Join(_, _)
Join(parts, sep) ==
    IF parts = <<>> THEN <<>>
    ELSE IF Len(parts) = 1 THEN parts[1]
    ELSE parts[1] \o sep \o Join(Tail(parts), sep)

Newline == <<"\n">>

-----------------------------------------------------------------------------
(* The data model.                                                         *)

\* A list-typed field left at its default.
None == [is_none |-> TRUE, items |-> <<>>]

\* A list-typed field holding a list.
PyList(items) == [is_none |-> FALSE, items |-> items]

\* `if x:` for a None-able list
Truthy(x) == ~x.is_none /\ x.items # <<>>

UMLElement(id, type, name, attributes, methods, relationships) ==
    [id |-> id, type |-> type, name |-> name, attributes |-> attributes,
     methods |-> methods, relationships |-> relationships, complexity |-> 1]

\* multiplicity is never set and is left out.
UMLRelationship(source, target, type) ==
    [source |-> source, target |-> target, type |-> type]

\* The keys of supported_types.
SupportedTypes == {"class", "sequence", "activity", "component"}

\* content.split('\n')
LinesOf(text) == SplitOn(text, Newline)

\* An exception leaves a dialect parser's loop at once.
Raise(st, exc) == [st EXCEPT !.exc = exc]

-----------------------------------------------------------------------------
(* The relationship classifier.                                            *)

DetermineRelationshipTypeInheritanceFirst(line) ==
    IF Contains(line, <<"<", "|", "-", "-">>) THEN "inheritance"
    ELSE IF Contains(line, <<"-", "-", ">">>) THEN "association"
    ELSE IF Contains(line, <<"-", "-", "*">>) THEN "composition"
    ELSE IF Contains(line, <<"-", "-", "o">>) THEN "aggregation"
    ELSE "unknown"

DetermineRelationshipType(line) ==
    IF Contains(line, <<"-", "-", ">">>) THEN "association"
    ELSE IF Contains(line, <<"-", "-", "*">>) THEN "composition"
    ELSE IF Contains(line, <<"-", "-", "o">>) THEN "aggregation"
    ELSE IF Contains(line, <<"<", "|", "-", "-">>) THEN "inheritance"
    ELSE "unknown"

-----------------------------------------------------------------------------
(* The class dialect.                                                      *)

\* No class is open.
NoClass ==
    [open |-> FALSE, element |-> UMLElement(0, "", <<>>, None, None, None)]

ClassStart ==
    [elements |-> <<>>, current_class |-> NoClass, exc |-> "", scanned |-> 0]

IsClassDefinitionNoSpace(line) == StartsWith(line, <<"c", "l", "a", "s", "s">>)

IsClassDefinition(line) == StartsWith(line, <<"c", "l", "a", "s", "s", " ">>)

\* The id is taken before the class still open is appended.
OpenClassIdBeforeFlush(st, line) ==
    LET flushed == IF st.current_class.open
                   THEN Append(st.elements, st.current_class.element)
                   ELSE st.elements
        words == SplitWs(line)
    IN  IF Len(words) < 2
        THEN Raise(st, "IndexError")
        ELSE [st EXCEPT
                !.elements = flushed,
                !.current_class =
                    [open |-> TRUE,
                     element |-> UMLElement(Len(st.elements), "class", words[2],
                                            PyList(<<>>), PyList(<<>>),
                                            PyList(<<>>))]]

\* A class definition: the class still open is appended, then the new one
\* takes the next id; line.split()[1] raises when the line has one word.
OpenClass(st, line) ==
    LET flushed == IF st.current_class.open
                   THEN Append(st.elements, st.current_class.element)
                   ELSE st.elements
        words == SplitWs(line)
    IN  IF Len(words) < 2
        THEN Raise(st, "IndexError")
        ELSE [st EXCEPT
                !.elements = flushed,
                !.current_class =
                    [open |-> TRUE,
                     element |-> UMLElement(Len(flushed), "class", words[2],
                                            PyList(<<>>), PyList(<<>>),
                                            PyList(<<>>))]]

AddAttribute(st, line) ==
    IF st.current_class.open /\ Contains(line, <<":">>)
    THEN [st EXCEPT !.current_class.element.attributes.items = Append(@, line)]
    ELSE st

AddMethod(st, line) ==
    IF st.current_class.open
    THEN [st EXCEPT !.current_class.element.methods.items = Append(@, line)]
    ELSE st

AddRelationship(st, line) ==
    LET parts == ReSplit(line)
        relationship ==
            UMLRelationship(Strip(parts[1]), Strip(parts[Len(parts)]),
                            DetermineRelationshipType(line))
    IN  IF Len(parts) >= 2 /\ st.current_class.open
        THEN [st EXCEPT
                !.current_class.element.relationships.items =
                    Append(@, relationship)]
        ELSE st

\* One pass of the loop over the lines.
ClassStep(st, raw) ==
    LET line == Strip(raw)
    IN  IF IsClassDefinition(line) THEN OpenClass(st, line)
        ELSE IF StartsWith(line, <<"+">>) \/ StartsWith(line, <<"-">>)
        THEN AddAttribute(st, line)
        ELSE IF Contains(line, <<"(", ")">>) THEN AddMethod(st, line)
        ELSE IF \/ Contains(line, <<"-", "-", ">">>)
                \/ Contains(line, <<"-", "-", "*">>)
                \/ Contains(line, <<"-", "-", "o">>)
        THEN AddRelationship(st, line)
        ELSE st

RECURSIVE ClassScan(_, _)
ClassScan(st, lines) ==
    IF lines = <<>> \/ st.exc # "" THEN st
    ELSE ClassScan(ClassStep([st EXCEPT !.scanned = @ + 1], Head(lines)),
                   Tail(lines))

\* _parse_class_diagram: the lines are scanned, then the class still open is
\* appended.  An exception returns nothing.
ParseClassDiagram(text) ==
    LET st == ClassScan(ClassStart, LinesOf(text))
    IN  [exc |-> st.exc,
         scanned |-> st.scanned,
         elements |-> IF st.exc # "" THEN <<>>
                      ELSE IF st.current_class.open
                      THEN Append(st.elements, st.current_class.element)
                      ELSE st.elements]

-----------------------------------------------------------------------------
(* The sequence dialect.                                                   *)

SequenceStart ==
    [elements |-> <<>>, actors |-> {}, messages |-> <<>>, exc |-> "",
     scanned |-> 0]

AddActor(st, line) ==
    LET words == SplitWs(line)
    IN  IF Len(words) < 2
        THEN Raise(st, "IndexError")
        ELSE [st EXCEPT
                !.actors = @ \cup {words[2]},
                !.elements = Append(@, UMLElement(Len(@), "actor", words[2],
                                                  None, None, None))]

\* The element a message becomes when it is appended to `elems`.
MessageElement(elems, msg) ==
    UMLElement(Len(elems), "message", msg.message,
               PyList(<<msg.source, msg.target>>), None, None)

\* The message becomes an element as soon as its line is read.
EmitMessageAtOnce(st, msg) ==
    [st EXCEPT !.elements = Append(@, MessageElement(@, msg))]

\* messages.append(...)
BufferMessage(st, msg) == [st EXCEPT !.messages = Append(@, msg)]

AddMessage(st, line) ==
    LET parts == SplitOn(line, <<"-", ">">>)
        source == Strip(parts[1])
        target_message == Strip(parts[2])
        fields == SplitOn(target_message, <<":">>)
        target == Strip(fields[1])
        message == IF Contains(target_message, <<":">>)
                   THEN Strip(fields[2])
                   ELSE <<>>
    IN  IF Len(parts) = 2
        THEN BufferMessage(st, [source |-> source, target |-> target,
                                message |-> message])
        ELSE st

SequenceStep(st, raw) ==
    LET line == Strip(raw)
    IN  IF StartsWith(line, <<"p", "a", "r", "t", "i", "c", "i", "p", "a",
                               "n", "t", " ">>)
        THEN AddActor(st, line)
        ELSE IF Contains(line, <<"-", ">">>) THEN AddMessage(st, line)
        ELSE st

RECURSIVE SequenceScan(_, _)
SequenceScan(st, lines) ==
    IF lines = <<>> \/ st.exc # "" THEN st
    ELSE SequenceScan(SequenceStep([st EXCEPT !.scanned = @ + 1], Head(lines)),
                      Tail(lines))

\* The loop that turns the buffered messages into elements.
RECURSIVE AppendMessages(_, _)
AppendMessages(elems, messages) ==
    IF messages = <<>> THEN elems
    ELSE AppendMessages(Append(elems, MessageElement(elems, Head(messages))),
                        Tail(messages))

\* _parse_sequence_diagram
ParseSequenceDiagram(text) ==
    LET st == SequenceScan(SequenceStart, LinesOf(text))
    IN  [exc |-> st.exc,
         scanned |-> st.scanned,
         elements |-> IF st.exc # "" THEN <<>>
                      ELSE AppendMessages(st.elements, st.messages)]

-----------------------------------------------------------------------------
(* The activity dialect.                                                   *)

ScanStart == [elements |-> <<>>, exc |-> "", scanned |-> 0]

\* elements.append(UMLElement(id=len(elements), type=..., name=...))
AddElement(st, type, name) ==
    [st EXCEPT !.elements = Append(@, UMLElement(Len(@), type, name,
                                                 None, None, None))]

\* any(symbol in line for symbol in ['->', '*', 'if', 'fork'])
HasFlowSymbol(line) ==
    \/ Contains(line, <<"-", ">">>)
    \/ Contains(line, <<"*">>)
    \/ Contains(line, <<"i", "f">>)
    \/ Contains(line, <<"f", "o", "r", "k">>)

\* line.split(':')[1].strip()
ActivityName(line) == Strip(SplitOn(line, <<":">>)[2])

ActivityStep(st, raw) ==
    LET line == Strip(raw)
    IN  IF \/ StartsWith(line, <<"s", "t", "a", "r", "t">>)
           \/ StartsWith(line, <<"e", "n", "d">>)
        THEN AddElement(st, "node", line)
        ELSE IF Contains(line, <<":">>) /\ ~HasFlowSymbol(line)
        THEN IF Len(SplitOn(line, <<":">>)) < 2
             THEN Raise(st, "IndexError")
             ELSE AddElement(st, "activity", ActivityName(line))
        ELSE IF Contains(line, <<"i", "f">>)
        THEN AddElement(st, "decision", line)
        ELSE IF \/ Contains(line, <<"f", "o", "r", "k">>)
                \/ Contains(line, <<"j", "o", "i", "n">>)
        THEN AddElement(st, "parallel", line)
        ELSE st

RECURSIVE ActivityScan(_, _)
ActivityScan(st, lines) ==
    IF lines = <<>> \/ st.exc # "" THEN st
    ELSE ActivityScan(ActivityStep([st EXCEPT !.scanned = @ + 1], Head(lines)),
                      Tail(lines))

\* _parse_activity_diagram
ParseActivityDiagram(text) ==
    LET st == ActivityScan(ScanStart, LinesOf(text))
    IN  [exc |-> st.exc,
         scanned |-> st.scanned,
         elements |-> IF st.exc # "" THEN <<>> ELSE st.elements]

-----------------------------------------------------------------------------
(* The component dialect.                                                  *)

\* line[1:line.index(']')]; str.index raises when the character is absent.
ComponentName(line) == Slice(line, 1, Find(line, <<"]">>) - 1)

\* line[line.index('(') + 1:line.index(')')]
InterfaceName(line) ==
    Slice(line, Find(line, <<"(">>), Find(line, <<")">>) - 1)

\* f"{parts[0].strip()} -> {parts[1].strip()}"
DependencyName(parts) ==
    Strip(parts[1]) \o <<" ", "-", ">", " ">> \o Strip(parts[2])

ComponentStep(st, raw) ==
    LET line == Strip(raw)
        parts == SplitOn(line, <<"-", "-", ">">>)
    IN  IF StartsWith(line, <<"[">>) /\ Contains(line, <<"]">>)
        THEN IF Find(line, <<"]">>) = 0
             THEN Raise(st, "ValueError")
             ELSE AddElement(st, "component", ComponentName(line))
        ELSE IF Contains(line, <<"(">>) /\ Contains(line, <<")">>)
        THEN IF Find(line, <<"(">>) = 0 \/ Find(line, <<")">>) = 0
             THEN Raise(st, "ValueError")
             ELSE AddElement(st, "interface", InterfaceName(line))
        ELSE IF Contains(line, <<"-", "-", ">">>)
        THEN IF Len(parts) = 2
             THEN AddElement(st, "dependency", DependencyName(parts))
             ELSE st
        ELSE st

RECURSIVE ComponentScan(_, _)
ComponentScan(st, lines) ==
    IF lines = <<>> \/ st.exc # "" THEN st
    ELSE ComponentScan(ComponentStep([st EXCEPT !.scanned = @ + 1],
                                     Head(lines)),
                       Tail(lines))

\* _parse_component_diagram
ParseComponentDiagram(text) ==
    LET st == ComponentScan(ScanStart, LinesOf(text))
    IN  [exc |-> st.exc,
         scanned |-> st.scanned,
         elements |-> IF st.exc # "" THEN <<>> ELSE st.elements]

-----------------------------------------------------------------------------
(* The input lines.                                                        *)

\* Lines of class-dialect text the model draws its inputs from.
LnClassA ==
    <<"c","l","a","s","s"," ","A"," ","{">>
LnClassB ==
    <<"c","l","a","s","s"," ","B">>
LnClassAPadded ==
    <<"\t","c","l","a","s","s"," "," ","A"," ">>
LnClassBare ==
    <<"c","l","a","s","s">>
LnAttrX ==
    <<"-","x",":"," ","i","n","t">>
LnGetXTyped ==
    <<"+","g","e","t","X","(",")",":"," ","i","n","t">>
LnGetX ==
    <<"g","e","t","X","(",")">>
LnPlusSecret ==
    <<"+","s","e","c","r","e","t">>
LnClose ==
    <<"}">>
LnAssoc ==
    <<"A"," ","-","-",">"," ","B">>
LnCompos ==
    <<"A"," ","-","-","*"," ","B">>
LnAggreg ==
    <<"A"," ","-","-","o"," ","B">>
LnInherit ==
    <<"B"," ","<","|","-","-"," ","A">>
LnBirdOwl ==
    <<"B","i","r","d","<","|","-","-","o","w","l">>
LnEmpty ==
    <<>>
ClassLines ==
    {LnClassA, LnClassB, LnClassAPadded, LnClassBare, LnAttrX, LnGetXTyped, LnGetX, LnPlusSecret, LnClose, LnAssoc, LnCompos, LnAggreg, LnInherit, LnBirdOwl, LnEmpty}

\* Lines of sequence-dialect text the model draws its inputs from.
LnPartUser ==
    <<"p","a","r","t","i","c","i","p","a","n","t"," ","U","s","e","r">>
LnPartSystem ==
    <<"p","a","r","t","i","c","i","p","a","n","t"," ","S","y","s","t","e","m">>
LnPartUserPadded ==
    <<" "," ","p","a","r","t","i","c","i","p","a","n","t"," "," ","U","s","e","r"," ">>
LnPartBare ==
    <<"p","a","r","t","i","c","i","p","a","n","t"," ">>
LnPartArrow ==
    <<"p","a","r","t","i","c","i","p","a","n","t"," ","A","-",">","B">>
LnLogin ==
    <<"U","s","e","r","-",">","S","y","s","t","e","m",":"," ","l","o","g","i","n">>
LnArrowOnly ==
    <<"A","-",">","B">>
LnTwoArrows ==
    <<"A","-",">","B","-",">","C">>
LnReply ==
    <<"S","y","s","t","e","m","-","-",">","U","s","e","r",":"," ","o","k",":"," ","d","o","n","e">>
LnNote ==
    <<"n","o","t","e",":"," ","h","i">>
SequenceLines ==
    {LnPartUser, LnPartSystem, LnPartUserPadded, LnPartBare, LnPartArrow, LnLogin, LnArrowOnly, LnTwoArrows, LnReply, LnNote}

\* Lines of activity-dialect text the model draws its inputs from.
LnStart ==
    <<"s","t","a","r","t">>
LnEnd ==
    <<"e","n","d">>
LnEndif ==
    <<"e","n","d","i","f">>
LnProcess ==
    <<":","P","r","o","c","e","s","s"," ","D","a","t","a">>
LnIf ==
    <<"i","f"," ","(","x",">","0",")">>
LnFork ==
    <<"f","o","r","k">>
LnJoin ==
    <<"j","o","i","n">>
LnTwoColons ==
    <<":","S","a","v","e",":"," ","f","i","l","e">>
LnNotify ==
    <<":","n","o","t","i","f","y"," ","u","s","e","r">>
LnFlow ==
    <<"a"," ","-",">"," ","b",":"," ","g","o">>
LnStar ==
    <<" ",":","x"," ","*"," ","y">>
ActivityLines ==
    {LnStart, LnEnd, LnEndif, LnProcess, LnIf, LnFork, LnJoin, LnTwoColons, LnNotify, LnFlow, LnStar}

\* Lines of component-dialect text the model draws its inputs from.
LnService ==
    <<"[","S","e","r","v","i","c","e"," ","A","]">>
LnInterface ==
    <<"(","I","n","t","e","r","f","a","c","e"," ","X",")">>
LnServiceDep ==
    <<"[","S","e","r","v","i","c","e"," ","A","]"," ","-","-",">"," ","(","I","n","t","e","r","f","a","c","e"," ","X",")">>
LnPlainDep ==
    <<" ","W","e","b"," ","-","-",">"," ","D","b"," ">>
LnChainDep ==
    <<"A"," ","-","-",">"," ","B"," ","-","-",">"," ","C">>
LnDepToIface ==
    <<"W","e","b"," ","-","-",">"," ","(","A","p","i",")">>
LnOpenBracket ==
    <<"[","A">>
LnEmptyBrackets ==
    <<"[","]">>
LnReversedParens ==
    <<")","x","(">>
LnThinArrow ==
    <<"W","e","b"," ","-",">"," ","D","b">>
ComponentLines ==
    {LnService, LnInterface, LnServiceDep, LnPlainDep, LnChainDep, LnDepToIface, LnOpenBracket, LnEmptyBrackets, LnReversedParens, LnThinArrow}
-----------------------------------------------------------------------------
(* The effort estimator.                                                   *)

\* base_efforts['class']['simple'], ['medium'], ['complex'] and
\* base_efforts['method']['simple'], in hours.
ClassSimple == 16
ClassMedium == 24
ClassComplex == 40
MethodSimple == 8

\* One hour and one unit of complexity, in units of 1/10000.
Unit == 10000

\* One hundredth, the unit of a reported figure, in units of 1/10000.
Cent == 100

\* len(x)
PyLen(x) == Len(x.items)

\* len(None) raises TypeError: _calculate_base_effort takes len of the
\* methods of a class element and, unless there are more than 10 of them, of
\* its relationships.
RaisesTypeError(element) ==
    /\ element.type = "class"
    /\ \/ element.methods.is_none
       \/ PyLen(element.methods) <= 10 /\ element.relationships.is_none

CalculateBaseEffortInclusive(element) ==
    IF element.type = "class"
    THEN IF PyLen(element.methods) >= 10 \/ PyLen(element.relationships) >= 5
         THEN ClassComplex
         ELSE IF PyLen(element.methods) >= 5
                    \/ PyLen(element.relationships) >= 3
         THEN ClassMedium
         ELSE ClassSimple
    ELSE MethodSimple

\* _calculate_base_effort, in hours.
CalculateBaseEffort(element) ==
    IF element.type = "class"
    THEN IF PyLen(element.methods) > 10 \/ PyLen(element.relationships) > 5
         THEN ClassComplex
         ELSE IF PyLen(element.methods) > 5 \/ PyLen(element.relationships) > 3
         THEN ClassMedium
         ELSE ClassSimple
    ELSE MethodSimple

\* sum(1 for r in relationships if r.type == 'inheritance')
InheritanceCount(relationships) ==
    Cardinality({i \in 1..Len(relationships) :
                    relationships[i].type = "inheritance"})

\* _calculate_complexity, in units of 1/10000.  complexity_factors holds 1.2,
\* 1.1 and 1.15, so the three factors are 1 + 0.2 n, 1 + 0.1 n and 1 + 0.15 n.
CalculateComplexity(element) ==
    LET c0 == Unit
        c1 == IF Truthy(element.relationships)
              THEN (c0 * (10 + 2 * InheritanceCount(element.relationships.items)))
                       \div 10
              ELSE c0
        relationship_count == IF Truthy(element.relationships)
                              THEN PyLen(element.relationships)
                              ELSE 0
        c2 == (c1 * (10 + relationship_count)) \div 10
        method_count == IF Truthy(element.methods)
                        THEN PyLen(element.methods)
                        ELSE 0
        c3 == (c2 * (100 + 15 * method_count)) \div 100
    IN  IF element.type = "class" THEN c3 ELSE c0

\* element_effort = base_effort * complexity, in units of 1/10000 hour.
ElementEffort(element) ==
    CalculateBaseEffort(element) * CalculateComplexity(element)

\* n / d rounded to the nearest integer, a tie to the even one.
RoundHalfEven(n, d) ==
    LET q == n \div d
        r == n % d
    IN  IF 2 * r < d THEN q
        ELSE IF 2 * r > d THEN q + 1
        ELSE IF q % 2 = 0 THEN q
        ELSE q + 1

\* round(x, 2) of a figure in units of 1/10000, in hundredths.
Round2(x) == RoundHalfEven(x, Cent)

\* The entry is kept as it is when the name is already a key.
DictSetKeepFirst(d, k, v) ==
    [x \in DOMAIN d \cup {k} |-> IF x \in DOMAIN d THEN d[x] ELSE v]

\* d[k] = v
DictSet(d, k, v) ==
    [x \in DOMAIN d \cup {k} |-> IF x = k THEN v ELSE d[x]]

\* The loop over the elements: total_effort and component_efforts after the
\* elements of `elems` that follow the first `i`.
RECURSIVE EffortLoop(_, _, _)
EffortLoop(elems, i, acc) ==
    IF i > Len(elems) THEN acc
    ELSE EffortLoop(elems, i + 1,
            [total_effort |-> acc.total_effort + ElementEffort(elems[i]),
             component_efforts |->
                 DictSet(acc.component_efforts, elems[i].name,
                         Round2(ElementEffort(elems[i])))])

\* The buffer is left out.
ApplyBufferNone(total_effort) == total_effort * 10

\* total_effort *= 1.3, in units of 1/100000 hour.
ApplyBuffer(total_effort) == total_effort * 13

\* complexity > 1.5 as the floats decide it.  complexity_factors holds 1.1,
\* and the float 1.1 - 1 is 0.10000000000000009: the one complexity that is
\* 1.5 in exact decimals (five relationships, no method, no inheritance) is
\* the float 1.5000000000000004, which exceeds 1.5.  Every other complexity
\* is at least 0.0001 away from 1.5.
ExceedsHighComplexity(complexity) == 2 * complexity >= 3 * Unit

\* The names of the elements whose complexity exceeds 1.5, in element order.
RECURSIVE HighComplexity(_)
HighComplexity(elems) ==
    IF elems = <<>> THEN <<>>
    ELSE (IF ExceedsHighComplexity(CalculateComplexity(Head(elems)))
          THEN <<Head(elems).name>>
          ELSE <<>>) \o HighComplexity(Tail(elems))

\* The dictionary estimate_effort returns; total_effort_hours in hundredths.
\* <<>> is the empty dictionary.
EstimateEffortResult(elems) ==
    LET acc == EffortLoop(elems, 1,
                          [total_effort |-> 0, component_efforts |-> <<>>])
    IN  [total_effort_hours |->
             RoundHalfEven(ApplyBuffer(acc.total_effort), 10 * Cent),
         component_efforts |-> acc.component_efforts,
         high_complexity_elements |-> HighComplexity(elems)]

\* The report analyze_uml_document assembles.
ReportOf(elems, est) ==
    [status |-> "ok",
     total_effort_hours |-> est.total_effort_hours,
     calendar_days |-> (est.total_effort_hours + 6 * Cent - 1) \div (6 * Cent),
     number_of_components |-> Len(elems),
     component_breakdown |-> est.component_efforts,
     high_complexity_elements |-> est.high_complexity_elements,
     recommendations |->
         IF Len(est.high_complexity_elements) > 0
         THEN <<"Consider breaking down complex elements into smaller components">>
         ELSE <<>>]

-----------------------------------------------------------------------------
(* The inputs.                                                             *)

\* Dialect tags supported_types does not hold.
UnsupportedTypes == {"usecase", "Class", ""}

DiagramTypes == SupportedTypes \cup UnsupportedTypes

LinesFor(tag) ==
    CASE tag = "sequence" -> SequenceLines
      [] tag = "activity" -> ActivityLines
      [] tag = "component" -> ComponentLines
      [] OTHER -> ClassLines

\* The documents of the specification's examples.
ClassExample ==
    Join(<<LnClassA, LnAttrX, LnGetXTyped, LnClose, LnClassB, LnAssoc>>,
         Newline)

SequenceExample == Join(<<LnPartUser, LnPartSystem, LnLogin>>, Newline)

ActivityExample == Join(<<LnStart, LnIf, LnProcess, LnFork, LnEnd>>, Newline)

ComponentExample == Join(<<LnService, LnInterface, LnServiceDep>>, Newline)

\* main()'s class_diagram.
MainExample ==
    <<"\n">> \o
    <<" "," "," "," ","c","l","a","s","s"," ","U","s","e","r"," ","{","\n">> \o
    <<" "," "," "," "," "," "," "," ","-","i","d",":"," ","i","n","t","\n">> \o
    <<" "," "," "," "," "," "," "," ","-","n","a","m","e",":"," ","s","t","r","i","n","g","\n">> \o
    <<" "," "," "," "," "," "," "," ","+","g","e","t","I","d","(",")",":"," ","i","n","t","\n">> \o
    <<" "," "," "," "," "," "," "," ","+","s","e","t","N","a","m","e","(","n","a","m","e",":"," ","s","t","r","i","n","g",")",":"," ","v","o","i","d","\n">> \o
    <<" "," "," "," ","}","\n">> \o
    <<" "," "," "," ","\n">> \o
    <<" "," "," "," ","c","l","a","s","s"," ","O","r","d","e","r"," ","{","\n">> \o
    <<" "," "," "," "," "," "," "," ","-","o","r","d","e","r","I","d",":"," ","i","n","t","\n">> \o
    <<" "," "," "," "," "," "," "," ","-","i","t","e","m","s",":"," ","L","i","s","t","\n">> \o
    <<" "," "," "," "," "," "," "," ","+","a","d","d","I","t","e","m","(","i","t","e","m",":"," ","I","t","e","m",")",":"," ","v","o","i","d","\n">> \o
    <<" "," "," "," "," "," "," "," ","+","r","e","m","o","v","e","I","t","e","m","(","i","t","e","m",":"," ","I","t","e","m",")",":"," ","v","o","i","d","\n">> \o
    <<" "," "," "," ","}","\n">> \o
    <<" "," "," "," ","\n">> \o
    <<" "," "," "," ","U","s","e","r"," ","-","-",">"," ","O","r","d","e","r","\n">> \o
    <<" "," "," "," ">>

\* A sequence text whose participant and message lines alternate.
InterleavedSequence ==
    Join(<<LnPartUser, LnLogin, LnPartSystem, LnReply, LnPartUserPadded>>,
         Newline)

ExampleFor(tag) ==
    CASE tag = "sequence" -> SequenceExample
      [] tag = "activity" -> ActivityExample
      [] tag = "component" -> ComponentExample
      [] OTHER -> ClassExample

\* The texts of at most MaxLines lines of the dialect, its example, for the
\* class dialect main()'s text and for the sequence dialect the alternating
\* text.
Contents(tag) ==
    {Join(ls, Newline) :
        ls \in UNION {[1..n -> LinesFor(tag)] : n \in 0..MaxLines}}
        \cup {ExampleFor(tag)}
        \cup (IF tag = "class" THEN {MainExample} ELSE {})
        \cup (IF tag = "sequence" THEN {InterleavedSequence} ELSE {})

NameK == <<"K">>

\* A class element with the given numbers of methods and relationships, the
\* first `inherited` relationships being inheritances.
ClassElement(id, methods, relationships, inherited) ==
    UMLElement(id, "class", NameK,
               PyList(<<>>),
               PyList([j \in 1..methods |-> LnGetX]),
               PyList([j \in 1..relationships |->
                          UMLRelationship(NameK, <<"B">>,
                                          IF j <= inherited
                                          THEN "inheritance"
                                          ELSE "association")]))

\* Every such element within the bounds.
ClassElements(id) ==
    {ClassElement(id, c[1], c[2], c[3]) :
        c \in {x \in (0..MaxMethods) \X (0..MaxRelationships)
                        \X (0..MaxInheritance) : x[3] <= x[2]}}

\* Elements that follow a class element in a sequence handed to the
\* estimator: of its name or another, with lists or without.
Companions ==
    {ClassElement(1, 0, 0, 0),
     ClassElement(1, 1, 1, 1),
     UMLElement(1, "actor", NameK, None, None, None),
     UMLElement(1, "class", <<"B">>, None, None, None),
     UMLElement(1, "class", <<"B">>, None,
                PyList([j \in 1..11 |-> LnGetX]), None)}

\* The element sequences handed straight to estimate_effort.
EstimatorInputs ==
    {<<e>> : e \in ClassElements(0)}
        \cup {<<e, f>> : e \in ClassElements(0), f \in Companions}

\* What a caller may hand in: a text and a tag to analyze_uml_document, or
\* an element sequence to estimate_effort.
Inputs ==
    UNION {{[entry |-> "analyze_uml_document", diagram_type |-> t,
             content |-> c, elements |-> <<>>] : c \in Contents(t)} :
              t \in DiagramTypes}
        \cup {[entry |-> "estimate_effort", diagram_type |-> "",
               content |-> <<>>, elements |-> es] : es \in EstimatorInputs}

-----------------------------------------------------------------------------
(* The state machine.                                                      *)

NoError == [type |-> "", arg |-> ""]

NoEstimation ==
    [total_effort_hours |-> 0, component_efforts |-> <<>>,
     high_complexity_elements |-> <<>>]

NoReport == [status |-> "none"]

Init ==
    \E inp \in Inputs :
        /\ entry = inp.entry
        /\ content = inp.content
        /\ diagram_type = inp.diagram_type
        /\ elements = inp.elements
        /\ pc = IF inp.entry = "estimate_effort" THEN "estimate" ELSE "parse"
        /\ scanned = 0
        /\ error = NoError
        /\ estimation = NoEstimation
        /\ report = NoReport

\* parse_uml with a tag supported_types does not hold: ValueError, before any
\* dialect parser is called.
ParseUnsupported ==
    /\ pc = "parse"
    /\ diagram_type \notin SupportedTypes
    /\ pc' = "raised"
    /\ error' = [type |-> "ValueError", arg |-> diagram_type]
    /\ UNCHANGED <<entry, content, diagram_type, elements, scanned,
                   estimation, report>>

\* What parse_uml hands back from the dialect parser it called.
ReturnParsed(res) ==
    /\ pc' = IF res.exc # "" THEN "raised" ELSE "estimate"
    /\ error' = IF res.exc # "" THEN [type |-> res.exc, arg |-> ""] ELSE error
    /\ elements' = res.elements
    /\ scanned' = res.scanned
    /\ UNCHANGED <<entry, content, diagram_type, estimation, report>>

ParseClass ==
    /\ pc = "parse"
    /\ diagram_type = "class"
    /\ ReturnParsed(ParseClassDiagram(content))

ParseSequence ==
    /\ pc = "parse"
    /\ diagram_type = "sequence"
    /\ ReturnParsed(ParseSequenceDiagram(content))

ParseActivity ==
    /\ pc = "parse"
    /\ diagram_type = "activity"
    /\ ReturnParsed(ParseActivityDiagram(content))

ParseComponent ==
    /\ pc = "parse"
    /\ diagram_type = "component"
    /\ ReturnParsed(ParseComponentDiagram(content))

\* estimate_effort
EstimateEffort ==
    /\ pc = "estimate"
    /\ IF \E i \in 1..Len(elements) : RaisesTypeError(elements[i])
       THEN /\ pc' = "raised"
            /\ error' = [type |-> "TypeError", arg |-> ""]
            /\ UNCHANGED estimation
       ELSE /\ pc' = IF entry = "estimate_effort" THEN "returned"
                     ELSE "assemble"
            /\ estimation' = EstimateEffortResult(elements)
            /\ UNCHANGED error
    /\ UNCHANGED <<entry, content, diagram_type, elements, scanned, report>>

\* analyze_uml_document, after the estimate: the report.
AssembleReport ==
    /\ pc = "assemble"
    /\ pc' = "returned"
    /\ report' = ReportOf(elements, estimation)
    /\ UNCHANGED <<entry, content, diagram_type, elements, scanned, error,
                   estimation>>

\* analyze_uml_document's except clause: the error record.
ReportFailure ==
    /\ pc = "raised"
    /\ entry = "analyze_uml_document"
    /\ pc' = "returned"
    /\ report' = [status |-> "failed", error |-> error]
    /\ UNCHANGED <<entry, content, diagram_type, elements, scanned, error,
                   estimation>>

Next ==
    \/ ParseUnsupported
    \/ ParseClass
    \/ ParseSequence
    \/ ParseActivity
    \/ ParseComponent
    \/ EstimateEffort
    \/ AssembleReport
    \/ ReportFailure

Spec == Init /\ [][Next]_vars


-----------------------------------------------------------------------------
(* What the claims speak of.                                               *)

\* parse_uml has returned an element sequence to analyze_uml_document.
Parsed ==
    /\ entry = "analyze_uml_document"
    /\ pc \in {"estimate", "assemble", "returned"}
    /\ error = NoError

\* estimate_effort has returned its dictionary.
Estimated == pc \in {"assemble", "returned"} /\ error = NoError

\* The lines of the text, each stripped.
TrimmedLines ==
    [i \in 1..Len(LinesOf(content)) |-> Strip(LinesOf(content)[i])]

\* An element of the activity category.
IsActivityElement(e) == e.type = "activity"

\* The part of s after the first occurrence of p.
AfterFirst(s, p) == SubSeq(s, Find(s, p) + Len(p), Len(s))

\* The number of items of a list field, an absent list counting none.
Count(x) == IF x.is_none THEN 0 ELSE Len(x.items)

\* Whether no element after the i-th bears its name.
LastOfItsName(i) ==
    \A j \in (i + 1)..Len(elements) : elements[j].name # elements[i].name

Arrow3 == <<"-", "-", ">">>

(* C1: parsing the class example of the specification yields exactly two   *)
(* class elements named A and B, in that order; A has exactly one          *)
(* attribute, one method and one relationship, an association whose target *)
(* is B; B has no relationship.                                            *)
C1_ClassExampleParse ==
    (Parsed /\ diagram_type = "class" /\ content = ClassExample) =>
        /\ Len(elements) = 2
        /\ elements[1].type = "class" /\ elements[1].name = <<"A">>
        /\ elements[2].type = "class" /\ elements[2].name = <<"B">>
        /\ Len(elements[1].attributes.items) = 1
        /\ Len(elements[1].methods.items) = 1
        /\ Len(elements[1].relationships.items) = 1
        /\ elements[1].relationships.items[1].type = "association"
        /\ elements[1].relationships.items[1].target = <<"B">>
        /\ elements[2].relationships.items = <<>>

\* The line holds '-->' and splits on it into exactly two parts.
IsTwoSidedDependency(line) ==
    Contains(line, Arrow3) /\ Len(SplitOn(line, Arrow3)) = 2

(* C2: parsing the component example yields, in order, a component, an     *)
(* interface and a dependency named '[Service A] -> (Interface X)'; and    *)
(* every component-dialect line that holds '-->' and splits on it into     *)
(* exactly two parts produces a dependency element named                   *)
(* '<left> -> <right>'.                                                    *)
C2_ComponentDependency ==
    (Parsed /\ diagram_type = "component") =>
        /\ content = ComponentExample =>
               /\ Len(elements) = 3
               /\ elements[1].type = "component"
               /\ elements[2].type = "interface"
               /\ elements[3].type = "dependency"
               /\ elements[3].name =
                      LnService \o <<" ", "-", ">", " ">> \o LnInterface
        /\ \A i \in DOMAIN TrimmedLines :
               IsTwoSidedDependency(TrimmedLines[i]) =>
                   \E k \in 1..Len(elements) :
                       /\ elements[k].type = "dependency"
                       /\ elements[k].name =
                              Strip(SplitOn(TrimmedLines[i], Arrow3)[1])
                                  \o <<" ", "-", ">", " ">>
                                  \o Strip(SplitOn(TrimmedLines[i], Arrow3)[2])

Participant ==
    <<"p", "a", "r", "t", "i", "c", "i", "p", "a", "n", "t", " ">>

IsParticipantLine(line) == StartsWith(line, Participant)

\* A line that is no participant line, holds '->' and splits on it into
\* exactly two parts.
IsMessageLine(line) ==
    /\ ~IsParticipantLine(line)
    /\ Contains(line, <<"-", ">">>)
    /\ Len(SplitOn(line, <<"-", ">">>)) = 2

(* C3: in the sequence dialect every actor element precedes every message  *)
(* element whatever the order of the lines; the actors are the participant *)
(* lines in source order, one element each, duplicates included; the       *)
(* messages are the message lines in source order, each with               *)
(* attributes = [source, target].                                          *)
C3_ActorsBeforeMessages ==
    (Parsed /\ diagram_type = "sequence") =>
        LET P == SelectSeq(TrimmedLines, IsParticipantLine)
            M == SelectSeq(TrimmedLines, IsMessageLine)
        IN  /\ Len(elements) = Len(P) + Len(M)
            /\ \A i \in 1..Len(P) :
                   /\ elements[i].type = "actor"
                   /\ elements[i].name = SplitWs(P[i])[2]
            /\ \A j \in 1..Len(M) :
                   LET e == elements[Len(P) + j]
                       sides == SplitOn(M[j], <<"-", ">">>)
                   IN  /\ e.type = "message"
                       /\ e.attributes =
                              PyList(<<Strip(sides[1]),
                                       Strip(SplitOn(Strip(sides[2]),
                                                     <<":">>)[1])>>)

\* C3's case: a message line stands before a participant line.
C3_Witness ==
    /\ Parsed
    /\ diagram_type = "sequence"
    /\ \E i, j \in DOMAIN TrimmedLines :
           /\ i < j
           /\ IsMessageLine(TrimmedLines[i])
           /\ IsParticipantLine(TrimmedLines[j])

(* C4: with a supported tag parse_uml returns an element sequence without  *)
(* raising, having scanned every line of the text; with any other tag it   *)
(* raises the ValueError that carries the tag before a dialect parser has  *)
(* scanned a line, and hands back no element sequence.                     *)
C4_RaisesOnlyUnsupported ==
    (entry = "analyze_uml_document" /\ pc # "parse") =>
        IF diagram_type \in SupportedTypes
        THEN /\ error.type \notin {"IndexError", "ValueError"}
             /\ scanned = Len(LinesOf(content))
        ELSE /\ error = [type |-> "ValueError", arg |-> diagram_type]
             /\ scanned = 0
             /\ elements = <<>>
             /\ estimation = NoEstimation

\* C4's case: a class text with a line that is the bare word 'class', the
\* line on which line.split()[1] would have nothing to take.
C4_Witness ==
    /\ Parsed
    /\ diagram_type = "class"
    /\ \E i \in DOMAIN TrimmedLines : TrimmedLines[i] = LnClassBare
    /\ elements # <<>>

\* The sum of the unrounded element efforts, every element counted.
RECURSIVE SumOfEfforts(_)
SumOfEfforts(elems) ==
    IF elems = <<>> THEN 0
    ELSE ElementEffort(Head(elems)) + SumOfEfforts(Tail(elems))

Abs(x) == IF x < 0 THEN -x ELSE x

(* C5: total_effort_hours is 1.3 times the sum of the unrounded efforts of *)
(* all the elements, elements of one name each counted, within 0.01.       *)
C5_BufferLaw ==
    Estimated =>
        Abs(10 * Cent * estimation.total_effort_hours
                - 13 * SumOfEfforts(elements)) <= 10 * Cent

\* C5's case: two elements of one name, and a total the rounding changes.
C5_Witness ==
    /\ Estimated
    /\ Len(elements) = 2
    /\ elements[1].name = elements[2].name
    /\ (13 * SumOfEfforts(elements)) % (10 * Cent) # 0

(* C6: the element at output position i, counted from 0, has id i, so the  *)
(* ids of one parse are non-negative and distinct; this holds of class     *)
(* elements, appended after their id is assigned, and of message elements, *)
(* appended after the actors.                                              *)
C6_IdIsPosition ==
    Parsed => \A i \in 1..Len(elements) : elements[i].id = i - 1

\* C6's case: a class text of which two classes were appended.
C6_Witness ==
    /\ Parsed
    /\ diagram_type = "class"
    /\ Len(elements) >= 2
    /\ Len(elements[1].attributes.items) >= 1

(* C7: the breakdown has exactly the names of the elements as its keys,    *)
(* and under each name the rounded effort of the last element of that      *)
(* name; analyze_uml_document reports it unchanged.                        *)
C7_BreakdownLastWins ==
    Estimated =>
        /\ DOMAIN estimation.component_efforts =
               {elements[i].name : i \in 1..Len(elements)}
        /\ \A i \in 1..Len(elements) :
               LastOfItsName(i) =>
                   estimation.component_efforts[elements[i].name] =
                       Round2(ElementEffort(elements[i]))
        /\ (pc = "returned" /\ entry = "analyze_uml_document") =>
               report.component_breakdown = estimation.component_efforts

\* C7's case: two elements of one name and different rounded efforts.
C7_Witness ==
    /\ Estimated
    /\ \E i, j \in 1..Len(elements) :
           /\ i < j
           /\ elements[i].name = elements[j].name
           /\ Round2(ElementEffort(elements[i]))
                  # Round2(ElementEffort(elements[j]))

\* The base effort the claim states, in hours.
ClaimedBase(e) ==
    IF e.type # "class" THEN 8
    ELSE IF Count(e.methods) > 10 \/ Count(e.relationships) > 5 THEN 40
    ELSE IF Count(e.methods) > 5 \/ Count(e.relationships) > 3 THEN 24
    ELSE 16

\* The multiplier the claim states, in units of 1/10000:
\* (1 + 0.2 i) (1 + 0.1 r) (1 + 0.15 m) is (10 + 2 i) (10 + r) (100 + 15 m)
\* ten-thousandths.
ClaimedMultiplier(e) ==
    IF e.type # "class" THEN 10000
    ELSE (10 + 2 * InheritanceCount(e.relationships.items))
             * (10 + Count(e.relationships))
             * (100 + 15 * Count(e.methods))

(* C8: every element's effort is base x multiplier with, for a class,      *)
(* base 40 if methods > 10 or relationships > 5, else 24 if methods > 5 or *)
(* relationships > 3, else 16, and multiplier                              *)
(* (1 + 0.2 inheritances) (1 + 0.1 relationships) (1 + 0.15 methods); for  *)
(* every other category base 8 and multiplier 1.  The breakdown reports    *)
(* that effort, rounded.                                                   *)
C8_EffortFormula ==
    Estimated =>
        \A i \in 1..Len(elements) :
            /\ ElementEffort(elements[i]) =
                   ClaimedBase(elements[i]) * ClaimedMultiplier(elements[i])
            /\ LastOfItsName(i) =>
                   100 * estimation.component_efforts[elements[i].name]
                       - ClaimedBase(elements[i])
                             * ClaimedMultiplier(elements[i])
                       \in -50..50

\* C8's case: a class element of the complex tier with an inheritance.
C8_Witness ==
    /\ Estimated
    /\ \E i \in 1..Len(elements) :
           /\ elements[i].type = "class"
           /\ Count(elements[i].methods) > 10
           /\ InheritanceCount(elements[i].relationships.items) >= 1

\* A stripped line the activity rule takes.
IsActivityLine(line) ==
    /\ ~StartsWith(line, <<"s", "t", "a", "r", "t">>)
    /\ ~StartsWith(line, <<"e", "n", "d">>)
    /\ Contains(line, <<":">>)
    /\ ~Contains(line, <<"-", ">">>)
    /\ ~Contains(line, <<"*">>)
    /\ ~Contains(line, <<"i", "f">>)
    /\ ~Contains(line, <<"f", "o", "r", "k">>)

(* C9: in the activity dialect each line the activity rule takes produces  *)
(* exactly one activity element, named by the stripped text after the      *)
(* first ':' of the line, also when the line holds more than one ':'.      *)
C9_ActivityNamedAfterFirstColon ==
    (Parsed /\ diagram_type = "activity") =>
        LET A == SelectSeq(TrimmedLines, IsActivityLine)
            acts == SelectSeq(elements, IsActivityElement)
        IN  /\ Len(acts) = Len(A)
            /\ \A i \in 1..Len(A) :
                   acts[i].name = Strip(AfterFirst(A[i], <<":">>))

ParsedKinds == {"association", "composition", "aggregation"}

(* C10: every relationship of an element the class parser returns is an    *)
(* association, a composition or an aggregation, never an inheritance or   *)
(* unknown, so the multiplier of every parsed class element is             *)
(* (1 + 0.1 relationships) (1 + 0.15 methods).                             *)
C10_NoInheritanceParsed ==
    (Parsed /\ diagram_type = "class") =>
        \A i \in 1..Len(elements) :
            /\ \A k \in 1..Len(elements[i].relationships.items) :
                   elements[i].relationships.items[k].type \in ParsedKinds
            /\ CalculateComplexity(elements[i]) =
                   10 * (10 + Len(elements[i].relationships.items))
                      * (100 + 15 * Len(elements[i].methods.items))

\* C10's case: a relationship read from a line that holds '<|--'.
C10_Witness ==
    /\ Parsed
    /\ diagram_type = "class"
    /\ \E i \in 1..Len(elements) :
           \E k \in 1..Len(elements[i].relationships.items) :
               Contains(elements[i].relationships.items[k].source,
                        <<"<", "|">>)

=============================================================================
